---- MODULE Spec2Model ----
(***************************************************************************)
(* Scheduled-content lifecycle of instagram-ai-marketing.                  *)
(*                                                                         *)
(* The store is the SQLite file instagram_marketing.db: tables content,    *)
(* content_schedule and performance_tracking are sets of rows.  Two daily  *)
(* cycles write content (InstagramMarketingBusiness.run_daily_automation   *)
(* and scheduler.generate_daily_content) and two sweeps publish due        *)
(* entries (InstagramMarketingBusiness.execute_scheduled_posts and         *)
(* scheduler.process_scheduled_posts).  A job that keeps one connection    *)
(* open works on tx* copies of the tables; conn.commit() copies them to    *)
(* the store, closing the connection without commit drops them.            *)
(* Ctrl+C ends the scheduler loop (KeyboardInterrupt).  The weekly         *)
(* retention cleanup is modelled on a store some weeks old (CleanupSpec).  *)
(***************************************************************************)
EXTENDS Integers, Sequences, FiniteSets, TLC

(* ---------------------------- bounds ----------------------------------- *)
MaxNow == 3
MaxContent == 2
MaxSched == 2
MaxPosts == 2
MaxFreq == 2

(* ------------------------ program constants ---------------------------- *)
Business == {1, 2}
TicksPerDay == 2
NineAM == 1
HardDailyCap == 3
NoTime == -1
NoPost == 0
NoError == "NULL"
PostingFailed == "Instagram posting failed"
ExceptionText == "str(e)"
RetentionDays == 30
FailedRetentionDays == 7
FailedRetryFloor == 3

VARIABLES
    clock,            \* datetime.now(), in ticks
    auto_post_enabled,\* business_settings.auto_post_enabled per business
    post_frequency,   \* business_settings.post_frequency per business
    preferred_times,  \* business_settings.preferred_times per business
    is_active,        \* users.is_active of the business's owner
    content,          \* committed rows of table content
    content_schedule, \* committed rows of table content_schedule
    performance_tracking, \* committed rows of table performance_tracking
    nextScheduleId,   \* AUTOINCREMENT counter of content_schedule
    gwPosts,          \* posts the Instagram gateway has published
    pc,               \* "idle", "daily" (business loop), "sweep" (post loop)
                      \* or "stopped" (main has returned)
    job,              \* the function that is running
    inDaily,          \* TRUE while run_daily_automation is on the stack
    todo,             \* businesses the daily loop has not visited yet
    pending_posts,    \* the rows fetched by the sweep's SELECT, in order
    pos,              \* index of the next row of pending_posts
    now,              \* the sweep's `now`
    txContent,        \* table content as the open connection sees it
    txSchedule,       \* table content_schedule as the open connection sees it
    txPerf,           \* table performance_tracking as the open connection sees it
    last,             \* what the last loop iteration did
    procPc,           \* two sweep processes on one file: "idle" or "sweep"
    procRows,         \* the rows each of the two processes fetched, in order
    procPos,          \* index of the next row of each of the two processes
    writer            \* the process that holds the file's write lock, or 0

vars == <<clock, auto_post_enabled, post_frequency, preferred_times, is_active,
          content, content_schedule, performance_tracking, nextScheduleId,
          gwPosts, pc, job, inDaily, todo, pending_posts, pos, now,
          txContent, txSchedule, txPerf, last, procPc, procRows, procPos, writer>>

config == <<auto_post_enabled, post_frequency, preferred_times, is_active>>
store == <<content, content_schedule, performance_tracking>>
tx == <<txContent, txSchedule, txPerf>>
procs == <<procPc, procRows, procPos, writer>>

(* the two scheduler processes of the repository: 1 runs scheduler.py
   (process_scheduled_posts), 2 runs complete_automation_system.py
   (execute_scheduled_posts) *)
Proc == {1, 2}

(* no second process: the variables of procs stay as they are here *)
NoProcs ==
    /\ procPc = [p \in Proc |-> "idle"]
    /\ procRows = [p \in Proc |-> <<>>]
    /\ procPos = [p \in Proc |-> 1]
    /\ writer = 0

(* ----------------------------- helpers --------------------------------- *)
Day(t) == t \div TicksPerDay

MaxId(T) == IF T = {} THEN 0 ELSE CHOOSE m \in {r.id : r \in T} : \A r \in T : r.id <= m

Row(T, i) == CHOOSE r \in T : r.id = i

NoLast == [entry |-> 0, res |-> "none", business |-> 0, generator |-> "none", calls |-> <<>>]

(* rows of content created for business b on the day of t *)
TodayContent(T, b, t) == {c \in T : c.business_id = b /\ Day(c.created_at) = Day(t)}

NewContent(T, b, t) ==
    [id |-> MaxId(T) + 1, business_id |-> b, status |-> "draft",
     created_at |-> t, published_at |-> NoTime]

(* a row of content_schedule; created_at is left out, no modelled statement
   reads it *)
NewSchedule(i, b, c, when) ==
    [id |-> i, business_id |-> b, content_id |-> c, scheduled_datetime |-> when,
     status |-> "pending", post_id |-> NoPost, error_message |-> NoError,
     retry_count |-> 0, completed_at |-> NoTime]

NewPerformance(T, b, p, t) ==
    [id |-> MaxId(T) + 1, business_id |-> b, post_id |-> p, posted_at |-> t,
     likes_count |-> 0, comments_count |-> 0, reach |-> 0, impressions |-> 0]

Init ==
    /\ clock = 0
    /\ auto_post_enabled \in {f \in [Business -> BOOLEAN] : f[1]}
    /\ post_frequency = [b \in Business |-> IF b = 1 THEN MaxFreq ELSE 1]
    /\ preferred_times = [b \in Business |-> IF b = 1 THEN <<0, 1>> ELSE <<>>]
    /\ is_active = [b \in Business |-> TRUE]
    /\ content = {}
    /\ content_schedule = {}
    /\ performance_tracking = {}
    /\ nextScheduleId = 1
    /\ gwPosts = {}
    /\ pc = "idle"
    /\ job = "none"
    /\ inDaily = FALSE
    /\ todo = {}
    /\ pending_posts = <<>>
    /\ pos = 1
    /\ now = 0
    /\ txContent = {}
    /\ txSchedule = {}
    /\ txPerf = {}
    /\ last = NoLast
    /\ NoProcs

(* time.sleep(60) between two runs of schedule.run_pending() *)
Tick ==
    /\ pc = "idle"
    /\ clock < MaxNow
    /\ clock' = clock + 1
    /\ UNCHANGED <<procs, config, store, nextScheduleId, gwPosts, pc, job, inDaily, todo,
                   pending_posts, pos, now, tx, last>>

(* ===================== AutomationEngine: daily cycles =================== *)

(* run_daily_automation's SELECT of the businesses to visit *)
ActiveBusinesses == {b \in Business : auto_post_enabled[b] /\ is_active[b]}

(* generate_daily_content's SELECT of the businesses to visit *)
ActiveUserBusinesses == {b \in Business : is_active[b]}

(* ScheduledTimes with datetime.now() as the default *)
ScheduledTimesNow(b, t) == {t}

(* ScheduledTimes without + timedelta(days=1) *)
ScheduledTimesToday(b, t) ==
    IF preferred_times[b] # <<>>
    THEN {Day(t) * TicksPerDay + preferred_times[b][i] :
              i \in 1..Len(preferred_times[b])}
    ELSE {Day(t) * TicksPerDay + NineAM}

(* schedule_content_post's choice of scheduled_time when none is given:
   tomorrow at one of preferred_times, or tomorrow 09:00 *)
ScheduledTimes(b, t) ==
    IF preferred_times[b] # <<>>
    THEN {(Day(t) + 1) * TicksPerDay + preferred_times[b][i] :
              i \in 1..Len(preferred_times[b])}
    ELSE {(Day(t) + 1) * TicksPerDay + NineAM}

(* the INSERT of schedule_content_post *)
InsertSchedule(T, i, b, c, when) == T \cup {NewSchedule(i, b, c, when)}

(* InsertContent run twice for the business, as a loop that fills a quota
   of two would *)
InsertContentTwice(T, b, t) ==
    T \cup {NewContent(T, b, t), [NewContent(T, b, t) EXCEPT !.id = @ + 1]}

(* the INSERT of generate_automated_content / generate_daily_content *)
InsertContent(T, b, t) == T \cup {NewContent(T, b, t)}

(* run_daily_automation's test before it generates *)
UnderQuota(T, b, t) == Cardinality(TodayContent(T, b, t)) < post_frequency[b]

(* generate_daily_content's test before it generates *)
UnderHardCap(T, b, t) == Cardinality(TodayContent(T, b, t)) < HardDailyCap

(* InstagramAutoPoster.generate_content_with_ai: the caption comes from the
   OpenAI call when it works (aiOk) and from _get_fallback_content when the
   key or the library is missing or the call raises; success is True in
   both cases *)
GenerateContentWithAi(aiOk) ==
    [success |-> TRUE, source |-> IF aiOk THEN "openai" ELSE "fallback"]

(* run_daily_automation, up to the business loop *)
RunDailyAutomation ==
    /\ pc = "idle"
    /\ pc' = "daily"
    /\ job' = "run_daily_automation"
    /\ inDaily' = TRUE
    /\ todo' = ActiveBusinesses
    /\ last' = NoLast
    /\ UNCHANGED <<procs, clock, config, store, nextScheduleId, gwPosts,
                   pending_posts, pos, now, tx>>

(* one iteration of run_daily_automation's loop: the quota test, then
   generate_automated_content (own connection, own commit) and
   schedule_content_post (own connection, own commit) *)
DailyAutomationStep ==
    /\ pc = "daily"
    /\ job = "run_daily_automation"
    /\ \E b \in todo :
        /\ todo' = todo \ {b}
        /\ \/ /\ ~UnderQuota(content, b, clock)
              /\ last' = [entry |-> 0, res |-> "quota_reached", business |-> b,
                          generator |-> "none", calls |-> <<>>]
              /\ UNCHANGED <<content, content_schedule, nextScheduleId>>
           \/ /\ UnderQuota(content, b, clock)
              \* generate_automated_content returned None (its except clause),
              \* or the iteration raised
              /\ last' = [entry |-> 0, res |-> "no_content", business |-> b,
                          generator |-> "none", calls |-> <<>>]
              /\ UNCHANGED <<content, content_schedule, nextScheduleId>>
           \/ /\ UnderQuota(content, b, clock)
              /\ auto_post_enabled[b]
              /\ Cardinality(content) < MaxContent
              /\ \E aiOk \in BOOLEAN :
                  LET g == GenerateContentWithAi(aiOk)
                  IN /\ g.success
                     /\ content' = InsertContent(content, b, clock)
                     /\ \/ /\ nextScheduleId <= MaxSched
                           /\ \E when \in ScheduledTimes(b, clock) :
                                content_schedule' =
                                    InsertSchedule(content_schedule, nextScheduleId, b,
                                                   MaxId(content) + 1, when)
                           /\ nextScheduleId' = nextScheduleId + 1
                           /\ last' = [entry |-> 0, res |-> "scheduled", business |-> b,
                                       generator |-> g.source, calls |-> <<>>]
                        \/ \* schedule_content_post returned False (its except clause)
                           /\ last' = [entry |-> 0, res |-> "not_scheduled", business |-> b,
                                       generator |-> g.source, calls |-> <<>>]
                           /\ UNCHANGED <<content_schedule, nextScheduleId>>
    /\ UNCHANGED <<procs, clock, config, performance_tracking, gwPosts, pc, job, inDaily,
                   pending_posts, pos, now, tx>>

(* generate_daily_content, up to the business loop *)
GenerateDailyContent ==
    /\ pc = "idle"
    /\ ActiveUserBusinesses # {}
    /\ pc' = "daily"
    /\ job' = "generate_daily_content"
    /\ todo' = ActiveUserBusinesses
    /\ txContent' = content
    /\ last' = NoLast
    /\ UNCHANGED <<procs, clock, config, store, nextScheduleId, gwPosts, inDaily,
                   pending_posts, pos, now, txSchedule, txPerf>>

(* one iteration of generate_daily_content's loop *)
GenerateDailyContentStep ==
    /\ pc = "daily"
    /\ job = "generate_daily_content"
    /\ \E b \in todo :
        /\ todo' = todo \ {b}
        /\ \/ /\ ~UnderHardCap(txContent, b, clock)
              /\ last' = [entry |-> 0, res |-> "quota_reached", business |-> b,
                          generator |-> "none", calls |-> <<>>]
              /\ UNCHANGED txContent
           \/ /\ UnderHardCap(txContent, b, clock)
              \* the inner except clause
              /\ last' = [entry |-> 0, res |-> "no_content", business |-> b,
                          generator |-> "none", calls |-> <<>>]
              /\ UNCHANGED txContent
           \/ /\ UnderHardCap(txContent, b, clock)
              /\ Cardinality(txContent) < MaxContent
              /\ \E aiOk \in BOOLEAN :
                  LET g == GenerateContentWithAi(aiOk)
                  IN /\ txContent' = InsertContent(txContent, b, clock)
                     /\ last' = [entry |-> 0, res |-> "draft", business |-> b,
                                 generator |-> g.source, calls |-> <<>>]
    /\ UNCHANGED <<procs, clock, config, store, nextScheduleId, gwPosts, pc, job, inDaily,
                   pending_posts, pos, now, txSchedule, txPerf>>

(* the end of generate_daily_content: conn.commit(), or the outer except
   clause and conn.close() without a commit *)
GenerateDailyContentEnd ==
    /\ pc = "daily"
    /\ job = "generate_daily_content"
    /\ todo = {}
    /\ \/ content' = txContent
       \/ UNCHANGED content
    /\ pc' = "idle"
    /\ job' = "none"
    /\ txContent' = {}
    /\ last' = NoLast
    /\ UNCHANGED <<procs, clock, config, content_schedule, performance_tracking,
                   nextScheduleId, gwPosts, inDaily, todo, pending_posts, pos, now,
                   txSchedule, txPerf>>

(* generate_daily_content's count query for the next business raises: it
   stands before the inner try, so the outer except clause ends the job and
   conn.close() drops the drafts inserted so far *)
GenerateDailyContentAbort ==
    /\ pc = "daily"
    /\ job = "generate_daily_content"
    /\ todo # {}
    /\ pc' = "idle"
    /\ job' = "none"
    /\ todo' = {}
    /\ txContent' = {}
    /\ last' = NoLast
    /\ UNCHANGED <<procs, clock, config, store, nextScheduleId, gwPosts, inDaily,
                   pending_posts, pos, now, txSchedule, txPerf>>

(* schedule_content_post called on its own for an existing content row,
   with scheduled_time None *)
ScheduleContentPost ==
    /\ pc = "idle"
    /\ nextScheduleId <= MaxSched
    /\ \E c \in content :
         \E when \in ScheduledTimes(c.business_id, clock) :
            content_schedule' =
                InsertSchedule(content_schedule, nextScheduleId, c.business_id,
                               c.id, when)
    /\ nextScheduleId' = nextScheduleId + 1
    /\ UNCHANGED <<procs, clock, config, content, performance_tracking, gwPosts, pc, job,
                   inDaily, todo, pending_posts, pos, now, tx, last>>

(* ============================ PostingGateway ============================ *)

(* InstagramAutoPoster.post_to_instagram with a caption and an image given:
   create_media_container, then publish_media; NoPost stands for False *)
PostToInstagram(stageOk, commitOk, newPost) ==
    IF ~stageOk THEN NoPost
    ELSE IF commitOk THEN newPost ELSE NoPost

(* GatewayCalls without `if not creation_id: return False` *)
GatewayCallsNoStageTest(stageOk, commitOk) ==
    <<[call |-> "create_media_container", ok |-> stageOk],
      [call |-> "time.sleep(3)", ok |-> TRUE],
      [call |-> "publish_media", ok |-> commitOk]>>

(* the calls post_to_instagram makes, in order, each with whether it
   returned a value that is true: create_media_container, and when that
   returned an id, time.sleep(3) and publish_media *)
GatewayCalls(stageOk, commitOk) ==
    IF ~stageOk
    THEN <<[call |-> "create_media_container", ok |-> FALSE]>>
    ELSE <<[call |-> "create_media_container", ok |-> TRUE],
           [call |-> "time.sleep(3)", ok |-> TRUE],
           [call |-> "publish_media", ok |-> commitOk]>>

(* the id the platform gives its next post *)
NextPostId == Cardinality(gwPosts) + 1

(* ============================ ScheduleExecutor =========================== *)

(* DuePosts without the comparison with now *)
DuePostsAnyTime(T, t) == {e \in T : e.status = "pending"}

(* DuePosts without the test of status *)
DuePostsAnyStatus(T, t) == {e \in T : e.scheduled_datetime <= t}

(* DuePosts with < in place of <= *)
DuePostsBefore(T, t) == {e \in T : e.scheduled_datetime < t /\ e.status = "pending"}

(* WHERE cs.scheduled_datetime <= ? AND cs.status = 'pending' *)
DuePosts(T, t) == {e \in T : e.scheduled_datetime <= t /\ e.status = "pending"}

(* the orders a SELECT can return the ids of the rows S in *)
Orders(S) ==
    {q \in [1..Cardinality(S) -> {e.id : e \in S}] :
        \A i, j \in 1..Cardinality(S) : i # j => q[i] # q[j]}

(* ... ORDER BY cs.scheduled_datetime ASC *)
OrdersByTime(S) ==
    {q \in Orders(S) :
        \A i, j \in 1..Cardinality(S) :
            i < j => Row(S, q[i]).scheduled_datetime <= Row(S, q[j]).scheduled_datetime}

(* UPDATE content_schedule SET status = 'completed', post_id = ?, completed_at = ? *)
MarkCompleted(T, i, p, t) ==
    {IF e.id = i
     THEN [e EXCEPT !.status = "completed", !.post_id = p, !.completed_at = t]
     ELSE e : e \in T}

(* UPDATE content SET status = 'published', published_at = ? *)
MarkPublished(T, c, t) ==
    {IF r.id = c THEN [r EXCEPT !.status = "published", !.published_at = t]
     ELSE r : r \in T}

(* INSERT INTO performance_tracking (business_id, post_id, content_type, posted_at) *)
InsertPerformance(T, b, p, t) == T \cup {NewPerformance(T, b, p, t)}

(* MarkFailed with the increment applied by the else branch and again by the
   except clause *)
MarkFailedTwice(T, i, msg) ==
    {IF e.id = i
     THEN [e EXCEPT !.status = "failed", !.retry_count = e.retry_count + 2,
                    !.error_message = msg]
     ELSE e : e \in T}

(* MarkFailed without retry_count = retry_count + 1 *)
MarkFailedNoRetry(T, i, msg) ==
    {IF e.id = i
     THEN [e EXCEPT !.status = "failed", !.error_message = msg]
     ELSE e : e \in T}

(* UPDATE content_schedule SET status = 'failed', retry_count = retry_count + 1,
   error_message = ? *)
MarkFailed(T, i, msg) ==
    {IF e.id = i
     THEN [e EXCEPT !.status = "failed", !.retry_count = e.retry_count + 1,
                    !.error_message = msg]
     ELSE e : e \in T}

(* the statements a sweep runs after a publish that returned a post id *)
SuccessStatements(j) ==
    IF j = "execute_scheduled_posts" THEN {"s1", "s2", "s3"} ELSE {"s1", "s2"}

(* the sweep opens its connection and fetches the due rows *)
BeginSweep(j, orders) ==
    /\ pc' = "sweep"
    /\ job' = j
    /\ now' = clock
    /\ pending_posts' \in orders
    /\ pos' = 1
    /\ txContent' = content
    /\ txSchedule' = content_schedule
    /\ txPerf' = performance_tracking
    /\ last' = NoLast
    /\ todo' = {}

(* ExecuteScheduledPosts started in a thread of its own while another job
   is running *)
ExecuteScheduledPostsThreaded ==
    /\ pc \in {"idle", "daily"}
    /\ BeginSweep("execute_scheduled_posts", OrdersByTime(DuePosts(content_schedule, clock)))
    /\ UNCHANGED <<procs, clock, config, store, nextScheduleId, gwPosts, inDaily>>

(* execute_scheduled_posts as the hourly job *)
ExecuteScheduledPosts ==
    /\ pc = "idle"
    /\ BeginSweep("execute_scheduled_posts", OrdersByTime(DuePosts(content_schedule, clock)))
    /\ UNCHANGED <<procs, clock, config, store, nextScheduleId, gwPosts, inDaily>>

(* the end of run_daily_automation: conn.close(), then execute_scheduled_posts *)
RunDailyAutomationEnd ==
    /\ pc = "daily"
    /\ job = "run_daily_automation"
    /\ todo = {}
    /\ BeginSweep("execute_scheduled_posts", OrdersByTime(DuePosts(content_schedule, clock)))
    /\ UNCHANGED <<procs, clock, config, store, nextScheduleId, gwPosts, inDaily>>

(* process_scheduled_posts as the five-minute job; it returns at once when
   nothing is due *)
ProcessScheduledPosts ==
    /\ pc = "idle"
    /\ DuePosts(content_schedule, clock) # {}
    /\ BeginSweep("process_scheduled_posts", Orders(DuePosts(content_schedule, clock)))
    /\ UNCHANGED <<procs, clock, config, store, nextScheduleId, gwPosts, inDaily>>

(* one iteration of the sweep's loop over pending_posts.  raised names the
   statement that raises: "none", "pre" (before post_to_instagram returns a
   post id) or one of SuccessStatements *)
SweepStep ==
    /\ pc = "sweep"
    /\ pos <= Len(pending_posts)
    /\ LET i == pending_posts[pos]
           e == Row(txSchedule, i)
       IN \E stageOk, commitOk \in BOOLEAN :
          \E raised \in {"none", "pre"} \cup SuccessStatements(job) :
            LET post_id == PostToInstagram(stageOk, commitOk, NextPostId)
                t == clock
            IN IF raised = "pre"
               THEN /\ stageOk /\ commitOk   \* nothing was posted: the flags are not read
                    /\ txSchedule' = MarkFailed(txSchedule, i, ExceptionText)
                    /\ last' = [entry |-> i, res |-> "raised", business |-> e.business_id,
                                generator |-> "none", calls |-> <<>>]
                    /\ UNCHANGED <<gwPosts, txContent, txPerf>>
               ELSE IF post_id = NoPost
               THEN /\ raised = "none"
                    /\ txSchedule' = MarkFailed(txSchedule, i, PostingFailed)
                    /\ last' = [entry |-> i, res |-> "not_posted", business |-> e.business_id,
                                generator |-> "none",
                                calls |-> GatewayCalls(stageOk, commitOk)]
                    /\ UNCHANGED <<gwPosts, txContent, txPerf>>
               ELSE /\ Cardinality(gwPosts) < MaxPosts
                    /\ gwPosts' = gwPosts \cup
                          {[post_id |-> post_id, content_id |-> e.content_id, entry |-> i]}
                    /\ txSchedule' =
                          IF raised = "none"
                          THEN MarkCompleted(txSchedule, i, post_id, t)
                          ELSE IF raised = "s1"
                          THEN MarkFailed(txSchedule, i, ExceptionText)
                          ELSE MarkFailed(MarkCompleted(txSchedule, i, post_id, t),
                                          i, ExceptionText)
                    /\ txContent' =
                          IF raised \in {"none", "s3"}
                          THEN MarkPublished(txContent, e.content_id, t)
                          ELSE txContent
                    /\ txPerf' =
                          IF raised = "none" /\ job = "execute_scheduled_posts"
                          THEN InsertPerformance(txPerf, e.business_id, post_id, t)
                          ELSE txPerf
                    /\ last' = [entry |-> i,
                                res |-> IF raised = "none" THEN "posted"
                                        ELSE "raised_after_post",
                                business |-> e.business_id, generator |-> "none",
                                calls |-> GatewayCalls(stageOk, commitOk)]
    /\ pos' = pos + 1
    /\ UNCHANGED <<procs, clock, config, store, nextScheduleId, pc, job, inDaily, todo,
                   pending_posts, now>>

(* the job is over: the connection is closed and the scheduler loop sleeps *)
EndJob ==
    /\ pc' = "idle"
    /\ job' = "none"
    /\ inDaily' = FALSE
    /\ todo' = {}
    /\ pending_posts' = <<>>
    /\ pos' = 1
    /\ now' = 0
    /\ txContent' = {}
    /\ txSchedule' = {}
    /\ txPerf' = {}
    /\ last' = NoLast

(* the loop is over: conn.commit() *)
SweepCommit ==
    /\ pc = "sweep"
    /\ pos > Len(pending_posts)
    /\ content' = txContent
    /\ content_schedule' = txSchedule
    /\ performance_tracking' = txPerf
    /\ EndJob
    /\ UNCHANGED <<procs, clock, config, nextScheduleId, gwPosts>>

(* the sweep ends without conn.commit(): the UPDATE of the inner except
   clause or conn.commit() raised (outer except clause), or the process
   died; closing the connection rolls the writes back *)
SweepAbort ==
    /\ pc = "sweep"
    /\ EndJob
    /\ UNCHANGED <<procs, clock, config, store, nextScheduleId, gwPosts>>

(* execute_scheduled_posts as the hourly job when sqlite3.connect raises:
   the except clause logs, then `finally: conn.close()` reads the unbound
   name conn and raises UnboundLocalError out of the job, through
   schedule.run_pending() and out of main, which catches KeyboardInterrupt
   only *)
ExecuteScheduledPostsNoStore ==
    /\ pc = "idle"
    /\ pc' = "stopped"
    /\ last' = [entry |-> 0, res |-> "UnboundLocalError", business |-> 0,
                generator |-> "none", calls |-> <<>>]
    /\ UNCHANGED <<procs, clock, config, store, nextScheduleId, gwPosts, job, inDaily, todo,
                   pending_posts, pos, now, tx>>

(* Ctrl+C: Python raises KeyboardInterrupt in whatever statement the main
   thread is executing, time.sleep(60) or a statement of a job.  The jobs
   catch Exception only, so it passes their except clauses, their finally
   closes the connection without commit, and main's except KeyboardInterrupt
   ends the loop *)
KeyboardInterrupt ==
    /\ pc \in {"idle", "daily", "sweep"}
    /\ pc' = "stopped"
    /\ job' = "none"
    /\ inDaily' = FALSE
    /\ todo' = {}
    /\ pending_posts' = <<>>
    /\ pos' = 1
    /\ now' = 0
    /\ txContent' = {}
    /\ txSchedule' = {}
    /\ txPerf' = {}
    /\ last' = NoLast
    /\ UNCHANGED <<procs, clock, config, store, nextScheduleId, gwPosts>>

(* ============================= Housekeeping ============================= *)

(* scheduler.cleanup_old_data: DELETE FROM content_schedule WHERE status =
   'completed' AND completed_at < now - 30 days *)
CleanupSchedule(T, t) ==
    {e \in T : ~(e.status = "completed" /\ e.completed_at < t - RetentionDays * TicksPerDay)}

(* DatabaseManager.cleanup_old_data(days): the two DELETEs compare dates *)
DbCleanupSchedule(T, t, days) ==
    {e \in T :
        /\ ~(e.status = "completed" /\ Day(e.completed_at) < Day(t) - days)
        /\ ~(/\ e.status = "failed"
             /\ e.retry_count > FailedRetryFloor
             /\ Day(e.created_at) < Day(t) - FailedRetentionDays)}

(* the weekly job scheduler.cleanup_old_data (one connection, one commit) *)
CleanupOldData ==
    /\ pc = "idle"
    /\ content_schedule' = CleanupSchedule(content_schedule, clock)
    /\ last' = [entry |-> 0, res |-> "cleanup", business |-> 0, generator |-> "none", calls |-> <<>>]
    /\ UNCHANGED <<procs, clock, config, content, performance_tracking, nextScheduleId,
                   gwPosts, pc, job, inDaily, todo, pending_posts, pos, now, tx>>

(* DatabaseManager.cleanup_old_data with its default days = 30 *)
DbCleanupOldData ==
    /\ pc = "idle"
    /\ content_schedule' = DbCleanupSchedule(content_schedule, clock, RetentionDays)
    /\ last' = [entry |-> 0, res |-> "cleanup", business |-> 0, generator |-> "none", calls |-> <<>>]
    /\ UNCHANGED <<procs, clock, config, content, performance_tracking, nextScheduleId,
                   gwPosts, pc, job, inDaily, todo, pending_posts, pos, now, tx>>

(* The store some weeks into operation: the clock is past the retention
   window and content_schedule holds entries that the daily cycle created on
   earlier days and that sweeps have completed, failed or not yet handled.
   The rows carry created_at, which DatabaseManager.cleanup_old_data reads. *)
CleanupNow == (RetentionDays + 5) * TicksPerDay

(* scheduled times on both sides of now - 30 days, and one of yesterday *)
AgedTimes ==
    {CleanupNow - RetentionDays * TicksPerDay + d : d \in {-3, -2, -1, 0, 1}}
        \cup {CleanupNow - TicksPerDay}

(* the entry of content row i, created a day before time s and handled (or
   not) by the sweep at time s *)
AgedSchedule(i, s, st) ==
    [id |-> i, business_id |-> 1, content_id |-> i, scheduled_datetime |-> s,
     status |-> st,
     post_id |-> IF st = "completed" THEN i ELSE NoPost,
     error_message |-> IF st = "failed" THEN PostingFailed ELSE NoError,
     retry_count |-> IF st = "failed" THEN 1 ELSE 0,
     completed_at |-> IF st = "completed" THEN s ELSE NoTime,
     created_at |-> s - TicksPerDay]

AgedContent(e) ==
    [id |-> e.content_id, business_id |-> e.business_id,
     status |-> IF e.status = "completed" THEN "published" ELSE "draft",
     created_at |-> e.created_at,
     published_at |-> e.completed_at]

CleanupInit ==
    /\ clock = CleanupNow
    /\ auto_post_enabled = [b \in Business |-> TRUE]
    /\ post_frequency = [b \in Business |-> IF b = 1 THEN MaxFreq ELSE 1]
    /\ preferred_times = [b \in Business |-> IF b = 1 THEN <<0, 1>> ELSE <<>>]
    /\ is_active = [b \in Business |-> TRUE]
    /\ \E s1, s2 \in AgedTimes :
       \E st1, st2 \in {"pending", "completed", "failed"} :
          content_schedule = {AgedSchedule(1, s1, st1), AgedSchedule(2, s2, st2)}
    /\ content = {AgedContent(e) : e \in content_schedule}
    /\ gwPosts = {[post_id |-> e.post_id, content_id |-> e.content_id, entry |-> e.id] :
                     e \in {x \in content_schedule : x.status = "completed"}}
    /\ performance_tracking = {}
    /\ nextScheduleId = MaxSched + 1
    /\ pc = "idle"
    /\ job = "none"
    /\ inDaily = FALSE
    /\ todo = {}
    /\ pending_posts = <<>>
    /\ pos = 1
    /\ now = 0
    /\ txContent = {}
    /\ txSchedule = {}
    /\ txPerf = {}
    /\ last = NoLast
    /\ NoProcs

CleanupNext ==
    \/ CleanupOldData
    \/ DbCleanupOldData

CleanupSpec == CleanupInit /\ [][CleanupNext]_vars

(* ================== two sweep processes on one database ================= *)

(* scheduler.py and complete_automation_system.py each run a scheduler loop
   and open the same file instagram_marketing.db.  A process reads the
   committed tables; its first UPDATE takes the file's write lock (writer)
   and opens its transaction (the tx tables), which conn.commit() stores.  An UPDATE
   of the other process meanwhile raises "database is locked" after
   sqlite3's timeout. *)
TwoSweepMaxPosts == 2 * MaxSched

(* the store when both processes find the entries of yesterday's daily run
   due *)
TwoSweepInit ==
    /\ clock = MaxNow
    /\ auto_post_enabled = [b \in Business |-> TRUE]
    /\ post_frequency = [b \in Business |-> IF b = 1 THEN MaxFreq ELSE 1]
    /\ preferred_times = [b \in Business |-> IF b = 1 THEN <<0, 1>> ELSE <<>>]
    /\ is_active = [b \in Business |-> TRUE]
    /\ content = InsertContent(InsertContent({}, 1, 0), 1, 0)
    /\ \E s1, s2 \in ScheduledTimes(1, 0) :
          content_schedule = InsertSchedule(InsertSchedule({}, 1, 1, 1, s1), 2, 1, 2, s2)
    /\ performance_tracking = {}
    /\ nextScheduleId = MaxSched + 1
    /\ gwPosts = {}
    /\ pc = "idle"
    /\ job = "none"
    /\ inDaily = FALSE
    /\ todo = {}
    /\ pending_posts = <<>>
    /\ pos = 1
    /\ now = 0
    /\ txContent = {}
    /\ txSchedule = {}
    /\ txPerf = {}
    /\ last = NoLast
    /\ NoProcs

(* process p opens its connection and runs the SELECT of its sweep;
   process_scheduled_posts returns at once when nothing is due *)
ProcSelect(p) ==
    /\ procPc[p] = "idle"
    /\ p = 1 => DuePosts(content_schedule, clock) # {}
    /\ \E rows \in IF p = 1 THEN Orders(DuePosts(content_schedule, clock))
                           ELSE OrdersByTime(DuePosts(content_schedule, clock)) :
          procRows' = [procRows EXCEPT ![p] = rows]
    /\ procPc' = [procPc EXCEPT ![p] = "sweep"]
    /\ procPos' = [procPos EXCEPT ![p] = 1]
    /\ UNCHANGED <<clock, config, store, nextScheduleId, gwPosts, pc, job, inDaily,
                   todo, pending_posts, pos, now, tx, last, writer>>

(* one iteration of process p's loop: post_to_instagram, then the UPDATEs
   of the branch taken *)
ProcStep(p) ==
    /\ procPc[p] = "sweep"
    /\ procPos[p] <= Len(procRows[p])
    /\ LET i == procRows[p][procPos[p]]
           e == Row(content_schedule, i)
       IN \E stageOk, commitOk \in BOOLEAN :
            LET post_id == PostToInstagram(stageOk, commitOk, NextPostId)
                baseSchedule == IF writer = p THEN txSchedule ELSE content_schedule
                baseContent == IF writer = p THEN txContent ELSE content
                basePerf == IF writer = p THEN txPerf ELSE performance_tracking
            IN /\ IF post_id = NoPost
                  THEN UNCHANGED gwPosts
                  ELSE /\ Cardinality(gwPosts) < TwoSweepMaxPosts
                       /\ gwPosts' = gwPosts \cup
                             {[post_id |-> post_id, content_id |-> e.content_id, entry |-> i]}
               /\ IF writer \in {0, p}
                  THEN /\ writer' = p
                       /\ txSchedule' =
                             IF post_id = NoPost
                             THEN MarkFailed(baseSchedule, i, PostingFailed)
                             ELSE MarkCompleted(baseSchedule, i, post_id, clock)
                       /\ txContent' =
                             IF post_id = NoPost THEN baseContent
                             ELSE MarkPublished(baseContent, e.content_id, clock)
                       /\ txPerf' =
                             IF post_id # NoPost /\ p = 2
                             THEN InsertPerformance(basePerf, e.business_id, post_id, clock)
                             ELSE basePerf
                       /\ procPos' = [procPos EXCEPT ![p] = @ + 1]
                       /\ UNCHANGED <<procPc, procRows>>
                  ELSE \* database is locked: the UPDATE raises, the UPDATE of the
                       \* except clause raises too, the outer except ends the sweep
                       /\ procPc' = [procPc EXCEPT ![p] = "idle"]
                       /\ procRows' = [procRows EXCEPT ![p] = <<>>]
                       /\ procPos' = [procPos EXCEPT ![p] = 1]
                       /\ UNCHANGED <<writer, tx>>
    /\ UNCHANGED <<clock, config, store, nextScheduleId, pc, job, inDaily, todo,
                   pending_posts, pos, now, last>>

(* the loop of process p is over: conn.commit() and conn.close() *)
ProcCommit(p) ==
    /\ procPc[p] = "sweep"
    /\ procPos[p] > Len(procRows[p])
    /\ IF writer = p
       THEN /\ content' = txContent
            /\ content_schedule' = txSchedule
            /\ performance_tracking' = txPerf
            /\ txContent' = {}
            /\ txSchedule' = {}
            /\ txPerf' = {}
            /\ writer' = 0
       ELSE UNCHANGED <<store, tx, writer>>
    /\ procPc' = [procPc EXCEPT ![p] = "idle"]
    /\ procRows' = [procRows EXCEPT ![p] = <<>>]
    /\ procPos' = [procPos EXCEPT ![p] = 1]
    /\ UNCHANGED <<clock, config, nextScheduleId, gwPosts, pc, job, inDaily, todo,
                   pending_posts, pos, now, last>>

TwoSweepNext ==
    \/ \E p \in Proc : ProcSelect(p)
    \/ \E p \in Proc : ProcStep(p)
    \/ \E p \in Proc : ProcCommit(p)

TwoSweepSpec == TwoSweepInit /\ [][TwoSweepNext]_vars

(* ================================ claims ================================ *)

IsDue(e) == e.status = "pending" /\ e.scheduled_datetime <= now

ContentOn(b, d) == {c \in content : c.business_id = b /\ Day(c.created_at) = d}

PostsOf(c) == {g \in gwPosts : g.content_id = c}

EntriesOf(c) == {e \in content_schedule : e.content_id = c}

(* C1: for every business and every day, the number of content rows created
   for the business on that day is at most its post_frequency, however often
   the daily cycles run. *)
C1_DailyQuota ==
    \A b \in Business : \A d \in 0..Day(MaxNow) :
        Cardinality(ContentOn(b, d)) <= post_frequency[b]

(* C2: the gateway publishes each content row at most once, also across
   sweeps that end without a commit after a publish.  Stated for the content
   rows that were enqueued once, so that a violation is the sweeps' doing. *)
C2_PublishedAtMostOnce ==
    \A c \in content :
        Cardinality(EntriesOf(c.id)) <= 1 => Cardinality(PostsOf(c.id)) <= 1

(* C3: the store shows the three writes of a successful publish together or
   not at all: an entry is completed exactly when its content is published,
   and every completed entry has its performance row and conversely. *)
C3_AtomicPublish ==
    /\ \A e \in content_schedule :
          e.status = "completed" =>
              /\ Row(content, e.content_id).status = "published"
              /\ \E p \in performance_tracking : p.post_id = e.post_id
    /\ \A c \in content :
          c.status = "published" =>
              \E e \in content_schedule : e.content_id = c.id /\ e.status = "completed"
    /\ \A p \in performance_tracking :
          \E e \in content_schedule : e.status = "completed" /\ e.post_id = p.post_id

(* C4: every content row has at most one pending schedule entry (an enqueue
   of a content row that has one is rejected). *)
C4_OnePendingPerContent ==
    \A c \in content :
        Cardinality({e \in EntriesOf(c.id) : e.status = "pending"}) <= 1

(* C5: between jobs, every content row with a pending schedule entry has
   status scheduled (enqueue moved it from draft to scheduled). *)
C5_PendingIsScheduled ==
    pc = "idle" =>
        \A e \in content_schedule :
            e.status = "pending" => Row(content, e.content_id).status = "scheduled"

(* C6: no content row is ever created for a business whose automation is
   disabled. *)
C6_DisabledNoContent ==
    \A b \in Business :
        ~auto_post_enabled[b] => {c \in content : c.business_id = b} = {}

FailureResults == {"not_posted", "raised", "raised_after_post"}

(* C7: an iteration of a sweep whose publish fails (post_to_instagram returns
   False, or the iteration raises) leaves the entry failed, with retry_count
   one higher and an error message; the sweep's commit stores exactly that. *)
C7_FailedPublishBookkeeping ==
    [][/\ (pc = "sweep" /\ pos' = pos + 1 /\ last'.res \in FailureResults) =>
            LET old == Row(txSchedule, last'.entry)
                new == Row(txSchedule', last'.entry)
            IN /\ old.status = "pending"
               /\ new.status = "failed"
               /\ new.retry_count = old.retry_count + 1
               /\ new.error_message # NoError
       /\ (pc = "sweep" /\ pc' = "idle") =>
            \A e \in content_schedule' :
                (e.status = "failed" /\ Row(content_schedule, e.id).status = "pending") =>
                    /\ e.retry_count = Row(content_schedule, e.id).retry_count + 1
                    /\ e.error_message # NoError
                    /\ e = Row(txSchedule, e.id)]_vars

C7_Witness ==
    /\ pc = "idle"
    /\ \E e \in content_schedule :
          e.status = "failed" /\ e.retry_count = 1 /\ e.error_message = PostingFailed
    /\ \E e \in content_schedule :
          e.status = "failed" /\ e.retry_count = 1 /\ e.error_message = ExceptionText

(* C8: a step of a sweep changes no schedule entry that is not pending with
   scheduled_datetime <= now, no content row that belongs to no such entry and
   no existing performance row, and a performance row it adds carries the post
   of such an entry. *)
C8_SweepFrame ==
    [][pc = "sweep" =>
        /\ \A e \in content_schedule :
              ~IsDue(e) =>
                  /\ e \in content_schedule'
                  /\ pc' = "sweep" => e \in txSchedule'
        /\ \A c \in content :
              (\A e \in EntriesOf(c.id) : ~IsDue(e)) =>
                  /\ c \in content'
                  /\ pc' = "sweep" => c \in txContent'
        /\ \A p \in performance_tracking :
              /\ p \in performance_tracking'
              /\ pc' = "sweep" => p \in txPerf'
        /\ \A p \in performance_tracking' \ performance_tracking :
              \E e \in content_schedule :
                  IsDue(e) /\ Row(content_schedule', e.id).post_id = p.post_id]_vars

C8_Witness ==
    /\ pc = "idle"
    /\ \E e1, e2 \in content_schedule :
          /\ e1.status = "completed"
          /\ e2.status = "completed"
          /\ e1.completed_at < e2.scheduled_datetime
          /\ e1.completed_at < e2.completed_at

(* C9: an iteration of a sweep in which the publish succeeds and nothing
   raises leaves the entry completed with the post id and a completion time,
   the content published with a publish time, and one new performance row
   with zeroed metrics and that post id; no other step adds a performance
   row. *)
C9_SuccessfulPublish ==
    [][/\ (pc = "sweep" /\ pos' = pos + 1 /\ last'.res = "posted") =>
            LET new == Row(txSchedule', last'.entry)
                c == Row(txContent', new.content_id)
            IN /\ new.status = "completed"
               /\ new.post_id # NoPost
               /\ \E g \in gwPosts' \ gwPosts : g.post_id = new.post_id
               /\ new.completed_at # NoTime
               /\ c.status = "published"
               /\ c.published_at # NoTime
               /\ \E p \in txPerf' \ txPerf :
                     /\ txPerf' = txPerf \cup {p}
                     /\ p.post_id = new.post_id
                     /\ p.likes_count = 0 /\ p.comments_count = 0
                     /\ p.reach = 0 /\ p.impressions = 0
       /\ (pc = "sweep" /\ pc' = "sweep" /\ txPerf' # txPerf) => last'.res = "posted"]_vars

(* C10: an iteration of a sweep in which post_to_instagram returns False
   changes no content row and no performance row, and the entry's content
   still has status scheduled and no publish time. *)
C10_FailedPublishFrame ==
    [][(pc = "sweep" /\ pos' = pos + 1 /\ last'.res = "not_posted") =>
            LET c == Row(txContent', Row(txSchedule', last'.entry).content_id)
            IN /\ txContent' = txContent
               /\ txPerf' = txPerf
               /\ c.status = "scheduled"
               /\ c.published_at = NoTime]_vars

(* C11: when the business loop of a daily cycle is over, every content row
   the day's cycles created has a schedule entry that references it (the
   draft and its entry are written together or not at all). *)
C11_DraftHasEntry ==
    [][(pc = "daily" /\ pc' # "daily") =>
          \A c \in content' :
              Day(c.created_at) = Day(clock) =>
                  \E e \in content_schedule' : e.content_id = c.id]_vars

(* C12: a store statement that raises while a sweep handles one entry undoes
   that entry's writes only: the iteration leaves no content row and no
   performance row changed and no post id or completion time on the entry,
   and a sweep that ends on a store failure still stores the outcomes of the
   entries it handled before. *)
C12_StoreFailureIsolated ==
    [][/\ (pc = "sweep" /\ pos' = pos + 1 /\ last'.res = "raised_after_post") =>
            LET new == Row(txSchedule', last'.entry)
            IN /\ txContent' = txContent
               /\ txPerf' = txPerf
               /\ new.post_id = NoPost
               /\ new.completed_at = NoTime
       /\ (pc = "sweep" /\ pc' = "idle") =>
            \A k \in 1..(pos - 1) :
                Row(content_schedule', pending_posts[k]) = Row(txSchedule, pending_posts[k])]_vars

(* C13: an iteration of a daily cycle in which the content generator fails
   or is unavailable for the business writes no content row and no schedule
   entry, and the loop goes on with the businesses left. *)
C13_GeneratorFailureSkips ==
    [][(pc = "daily" /\ pc' = "daily" /\ last'.generator = "fallback") =>
          /\ content' = content
          /\ txContent' = txContent
          /\ content_schedule' = content_schedule
          /\ todo' = todo \ {last'.business}]_vars

(* C14: the business loop of a daily cycle ends only when it has visited
   every business its SELECT returned, whatever was raised on the way. *)
C14_CycleVisitsAll ==
    [][(pc = "daily" /\ pc' # "daily") => todo = {}]_vars

(* C15: a sweep ends only after it has handled every row its SELECT
   returned, and then the store holds an outcome (completed or failed) for
   each of them, whatever failed on the way. *)
C15_SweepVisitsAll ==
    [][(pc = "sweep" /\ pc' # "sweep") =>
          /\ pos > Len(pending_posts)
          /\ \A k \in 1..Len(pending_posts) :
                Row(content_schedule', pending_posts[k]).status \in {"completed", "failed"}]_vars

(* C16: while run_daily_automation is running the gateway publishes nothing,
   and the run changes no performance row and no existing schedule entry or
   content row: it only adds content rows and schedule entries. *)
C16_DailyCycleNoPosting ==
    [][inDaily =>
          /\ gwPosts' = gwPosts
          /\ performance_tracking' = performance_tracking
          /\ content \subseteq content'
          /\ content_schedule \subseteq content_schedule']_vars

(* C17: the scheduler loop stops only between two runs of run_pending: a
   stop signal that arrives while a job is running takes effect after the
   job has ended. *)
C17_StopOnlyBetweenJobs ==
    [][pc' = "stopped" => pc \in {"idle", "stopped"}]_vars

(* C18: a sweep whose loop runs to the end and whose commit succeeds leaves
   every schedule entry that was pending with scheduled_datetime <= now when
   it started completed or failed in the store; none of them is still
   pending for the next sweep. *)
C18_DueDrivenToTerminal ==
    [][(/\ pc = "sweep" /\ pc' = "idle"
        /\ pos > Len(pending_posts)
        /\ content_schedule' = txSchedule) =>
          \A e \in content_schedule :
              IsDue(e) => Row(content_schedule', e.id).status \in {"completed", "failed"}]_vars

C18_Witness ==
    /\ pc = "idle"
    /\ \E e1, e2 \in content_schedule :
          /\ e1.status = "completed"
          /\ e2.status = "failed"
          /\ e2.error_message = PostingFailed
          /\ e1.completed_at = e2.scheduled_datetime

Terminal(e) == e.status \in {"completed", "failed", "cancelled"}

(* the time an entry left the queue: its completion time, or for an entry
   that failed the time it was due *)
EndedAt(e) == IF e.completed_at # NoTime THEN e.completed_at ELSE e.scheduled_datetime

OlderThanWindow(e, t) == EndedAt(e) < t - RetentionDays * TicksPerDay

(* C19: a cleanup run deletes every completed, failed or cancelled schedule
   entry that is older than the retention window, and deletes no pending
   entry and no entry younger than the window. *)
C19_CleanupDeletesTerminal ==
    [][last'.res = "cleanup" =>
          \A e \in content_schedule :
              /\ (Terminal(e) /\ OlderThanWindow(e, clock)) => e \notin content_schedule'
              /\ (e.status = "pending" \/ ~OlderThanWindow(e, clock)) => e \in content_schedule']_vars

(* C20: a sweep handles its due entries in ascending order of
   scheduled_datetime: the entry an iteration handles is not later than any
   entry the sweep has still to handle. *)
C20_AscendingOrder ==
    [][(pc = "sweep" /\ pos' = pos + 1) =>
          \A k \in (pos + 1)..Len(pending_posts) :
              Row(content_schedule, pending_posts[pos]).scheduled_datetime
                  <= Row(content_schedule, pending_posts[k]).scheduled_datetime]_vars

(* C21: a schedule entry that is completed or failed in the store keeps that
   status in every later step, no later sweep iteration handles it, and the
   gateway gets no further post for it. *)
C21_TerminalStaysTerminal ==
    [][\A e \in content_schedule :
          e.status # "pending" =>
              /\ \A x \in content_schedule' : x.id = e.id => x.status = e.status
              /\ \A g \in gwPosts' \ gwPosts : g.entry # e.id
              /\ (pc = "sweep" /\ pos' = pos + 1) => pending_posts[pos] # e.id]_vars

C21_Witness ==
    /\ pc = "sweep"
    /\ Len(pending_posts) = 1
    /\ pos > Len(pending_posts)
    /\ last.res = "posted"
    /\ \E e \in content_schedule :
          /\ e.status = "failed"
          /\ e.scheduled_datetime <= now
          /\ e.id # pending_posts[1]

(* C22: in every publish of a sweep, publish_media is called only as the
   third call, after create_media_container returned an id and after the
   wait; when create_media_container fails it is the only call, the publish
   reports failure and the platform has no new post. *)
C22_StageBeforeCommit ==
    [][(pc = "sweep" /\ pos' = pos + 1) =>
          LET c == last'.calls
          IN /\ \A k \in 1..Len(c) :
                    c[k].call = "publish_media" =>
                        /\ k = 3
                        /\ c[1].call = "create_media_container" /\ c[1].ok
                        /\ c[2].call = "time.sleep(3)"
             /\ (c # <<>> /\ ~c[1].ok) =>
                    /\ Len(c) = 1
                    /\ last'.res = "not_posted"
                    /\ gwPosts' = gwPosts
             /\ last'.res \in {"posted", "raised_after_post"} =>
                    Len(c) = 3 /\ c[3].ok]_vars

C22_Witness ==
    /\ pc = "sweep"
    /\ last.res = "not_posted"
    /\ Len(last.calls) = 1
    /\ ~last.calls[1].ok

(* C23: a schedule entry created without an explicit time is scheduled on
   the day after its creation, at one of the business's preferred times when
   the list has any, and at 09:00 when it has none. *)
C23_TargetTime ==
    [][\A e \in content_schedule' :
          (\A x \in content_schedule : x.id # e.id) =>
              LET pt == preferred_times[e.business_id]
                  timeOfDay == e.scheduled_datetime % TicksPerDay
              IN /\ Day(e.scheduled_datetime) = Day(clock) + 1
                 /\ pt # <<>> => \E k \in 1..Len(pt) : timeOfDay = pt[k]
                 /\ pt = <<>> => timeOfDay = NineAM]_vars

C23_Witness ==
    /\ \E e \in content_schedule :
          e.business_id = 1 /\ e.scheduled_datetime % TicksPerDay # NineAM
    /\ \E e \in content_schedule :
          e.business_id = 2 /\ e.scheduled_datetime % TicksPerDay = NineAM

(* C24: the scheduler loop ends on the stop signal only: no failure of a
   job, the store being unreachable when the job opens it included, takes
   the loop from running to stopped. *)
C24_JobFailureKeepsLoop ==
    [][(pc # "stopped" /\ pc' = "stopped") => last' = NoLast]_vars

(* C25: a job starts only when no job is running, or as the call of
   execute_scheduled_posts that run_daily_automation makes after its loop
   and after closing its connection; while a job runs, no step belongs to
   another job, and the store changes only by the running job's own
   commits. *)
C25_NoOverlap ==
    [][/\ (job' # job /\ job' # "none") =>
             \/ pc = "idle"
             \/ /\ job = "run_daily_automation" /\ todo = {}
                /\ job' = "execute_scheduled_posts"
       /\ (pc = "sweep" /\ pc' = "sweep") =>
             /\ job' = job
             /\ pending_posts' = pending_posts
             /\ UNCHANGED store
       /\ (pc = "daily" /\ pc' = "daily") =>
             /\ job' = job
             /\ todo' \subseteq todo
             /\ UNCHANGED <<performance_tracking, gwPosts, txSchedule, txPerf>>]_vars

C25_Witness ==
    /\ pc = "daily"
    /\ job = "generate_daily_content"
    /\ txContent # content
    /\ \E e \in content_schedule : e.status = "completed"

(* C26: the retry_count of every schedule entry, in the store and in an open
   transaction, is 0 or 1, and it is 1 exactly when the entry is failed. *)
C26_RetryCountAtMostOne ==
    \A e \in content_schedule \cup txSchedule :
        /\ e.retry_count \in {0, 1}
        /\ e.retry_count = 1 <=> e.status = "failed"

C26_Witness ==
    /\ pc = "idle"
    /\ \E e \in content_schedule :
          e.status = "failed" /\ e.post_id # NoPost /\ e.retry_count = 1
    /\ \E e \in content_schedule :
          e.status = "completed" /\ e.retry_count = 0

(* C27: in the store a schedule entry carries a post id and a completion
   time when it is completed, and neither when it is pending or failed. *)
C27_PostIdIffCompleted ==
    \A e \in content_schedule :
        IF e.status = "completed"
        THEN e.post_id # NoPost /\ e.completed_at # NoTime
        ELSE e.post_id = NoPost /\ e.completed_at = NoTime

(* C28: a schedule entry created without an explicit time is scheduled
   strictly later than the time of its creation, and the sweep that
   run_daily_automation performs at its end handles no entry whose content
   row was created in that run. *)
C28_NotPublishedInSameRun ==
    [][/\ \A e \in content_schedule' :
             (\A x \in content_schedule : x.id # e.id) => e.scheduled_datetime > clock
       /\ (inDaily /\ pc = "sweep" /\ pos' = pos + 1) =>
             Row(content, Row(content_schedule, pending_posts[pos]).content_id).created_at
                 < now]_vars

C28_Witness ==
    /\ inDaily
    /\ pc = "sweep"
    /\ pos > 1
    /\ last.res = "posted"
    /\ \E e \in content_schedule :
          e.status = "pending" /\ e.scheduled_datetime > now
             /\ Row(content, e.content_id).created_at = now

(* C29: an iteration of run_daily_automation's loop creates at most one
   content row, for the business it visits, and the loop visits no business
   twice in a run; so a run creates at most one content row per business,
   also for a business that is two short of its quota. *)
C29_OnePerBusinessPerRun ==
    [][(pc = "daily" /\ job = "run_daily_automation") =>
          /\ Cardinality(content' \ content) <= 1
          /\ \A c \in content' \ content :
                /\ c.business_id = last'.business
                /\ c.business_id \in todo
                /\ c.business_id \notin todo'
          /\ pc' = "daily" => todo' \subseteq todo]_vars

C29_Witness ==
    /\ pc = "daily"
    /\ job = "run_daily_automation"
    /\ todo = {}
    /\ post_frequency[1] = 2
    /\ Cardinality(TodayContent(content, 1, clock)) = 1
    /\ last.business = 1
    /\ last.res = "scheduled"

(* C30: with the two sweeps running as two processes on the same database,
   the gateway gets at most one post for each schedule entry, and an entry
   that is completed or failed in the store keeps that status. *)
C30_TwoSweepsPostOnce ==
    [][/\ \A e \in content_schedule :
             Cardinality({g \in gwPosts' : g.entry = e.id}) <= 1
       /\ \A e \in content_schedule :
             e.status # "pending" => Row(content_schedule', e.id).status = e.status]_vars

Next ==
    \/ Tick
    \/ RunDailyAutomation
    \/ DailyAutomationStep
    \/ RunDailyAutomationEnd
    \/ GenerateDailyContent
    \/ GenerateDailyContentStep
    \/ GenerateDailyContentEnd
    \/ GenerateDailyContentAbort
    \/ ScheduleContentPost
    \/ ExecuteScheduledPosts
    \/ ProcessScheduledPosts
    \/ SweepStep
    \/ SweepCommit
    \/ SweepAbort
    \/ ExecuteScheduledPostsNoStore
    \/ KeyboardInterrupt

Spec == Init /\ [][Next]_vars
====
